---- MODULE Spec2Model ----
(***************************************************************************)
(* Job-shop simulation kernel (src/services/simulationEngine.ts).          *)
(*                                                                         *)
(* SimulationEngine.run() executes `replications` single runs, each a      *)
(* discrete-event loop over a time-sorted event array driven by a seeded   *)
(* linear congruential generator, and aggregates the per-run statistics.   *)
(*                                                                         *)
(* Numbers.  The source computes in IEEE doubles.  Here every quantity is  *)
(* an integer in a fixed unit:                                             *)
(*   - the generator state is the exact integer the source keeps;          *)
(*   - -ln(1-u) is rounded away from zero to a multiple of 1/4             *)
(*     (ExpUnits), so it is 0 exactly when u = 0 and negative exactly when *)
(*     u < 0, as in the source;                                            *)
(*   - means are in fifths of a minute, so times are in ticks of 1/20      *)
(*     minute; duration and degradationThreshold are given in ticks;       *)
(*   - quotients are truncated: averages of times to whole ticks,          *)
(*     dimensionless ratios to multiples of 1/Scale.                       *)
(***************************************************************************)
EXTENDS Integers, Sequences, FiniteSets

----------------------------------------------------------------------------
(* Bounds of the model.                                                    *)

\* Events one run may process before the model stops following it.
MaxEvents == 48

\* Largest replication count explored.
MaxReplications == 3

\* Invocations of run() followed one after the other.
MaxInvocations == 2

----------------------------------------------------------------------------
(* Program constants.                                                      *)

LcgMultiplier == 9301
LcgIncrement  == 49297
LcgModulus    == 233280

\* Ticks per minute: quarter units of -ln(1-u) times means in fifths.
TicksPerMinute == 4 * 5

\* Fixed-point denominator of the dimensionless ratios (three decimals).
Scale == 10 * 10 * 10

\* const serviceThreshold = 5 (minutes), in ticks.
ServiceThreshold == 5 * TicksPerMinute

\* 1.96, in hundredths.
ZScore == 196

\* The sensitivity sweep: for (let i = 1; i <= 10; i++), and the cap of
\* Math.min(config.replications, 5).
SweepPoints == 10
SweepReplicationCap == 5

----------------------------------------------------------------------------
(* Small helpers.                                                          *)

Max(a, b) == IF a >= b THEN a ELSE b
Min(a, b) == IF a <= b THEN a ELSE b

RECURSIVE SumSeq(_)
SumSeq(s) == IF s = <<>> THEN 0 ELSE Head(s) + SumSeq(Tail(s))

RECURSIVE MaxSeq(_)
MaxSeq(s) == IF Len(s) = 1 THEN s[1] ELSE Max(Head(s), MaxSeq(Tail(s)))

\* An optional number (a field that is undefined until assigned).
Unset == <<>>
Some(x) == <<x>>
IsSet(f) == f # <<>>
Val(f) == f[1]
\* JavaScript truthiness of an optional number: undefined and 0 are falsy.
Truthy(f) == IsSet(f) /\ Val(f) # 0

----------------------------------------------------------------------------
(* class Random                                                            *)

\* a % m of JavaScript for m > 0: the result has the sign of a.
JsRem(a, m) == IF a >= 0 THEN a % m ELSE 0 - ((0 - a) % m)

\* (a * 9301) mod 233280 for a >= 0, split as a*93*100 + a so that no
\* intermediate product leaves 32 bits (the source's doubles are exact here).
MulMod(a) == (((a * (LcgMultiplier \div 100)) % LcgModulus) * 100
              + a * (LcgMultiplier % 100)) % LcgModulus

\* this.seed = (this.seed * 9301 + 49297) % 233280
RandomNext(seed) ==
    IF seed >= 0
    THEN (MulMod(seed) + LcgIncrement) % LcgModulus
    ELSE IF (0 - seed) <= LcgIncrement \div LcgMultiplier
         THEN JsRem(seed * LcgMultiplier + LcgIncrement, LcgModulus)
         ELSE 0 - ((MulMod(0 - seed) + LcgModulus - LcgIncrement) % LcgModulus)

\* floor(233280 * (1 - e^(-j/4))), j = 0, 1, ...: -ln(1 - s/233280) > j/4
\* exactly when s exceeds the j-th entry.
ExpBreaks ==
    << 0, 51601, 91788, 123086, 147461, 166444, 181228, 192742, 201708,
       208692, 214131, 218366, 221665, 224234, 226235, 227793, 229007,
       229952, 230688, 231261, 231708, 232055, 232326, 232537, 232701,
       232829, 232929, 233006, 233067, 233114, 233150, 233179, 233201,
       233219, 233232, 233243, 233251, 233257, 233262, 233266, 233269,
       233271, 233273, 233274, 233276, 233276, 233277, 233278, 233278,
       233278 >>

\* floor(233280 * (e^(j/4) - 1)), j = 0, 1, 2: ln(1 + a/233280) > j/4
\* exactly when a exceeds the j-th entry (a < 233280).
NegExpBreaks == << 0, 66257, 151333 >>

\* -Math.log(1 - state/233280), in quarter units, rounded away from zero.
ExpUnits(state) ==
    IF state >= 0
    THEN Cardinality({j \in 1..Len(ExpBreaks) : state > ExpBreaks[j]})
    ELSE 0 - Cardinality({j \in 1..Len(NegExpBreaks) : (0 - state) > NegExpBreaks[j]})

\* exponential(mean) for the draw that left the generator in `state`.
Exponential_zero(state, mean) == 0
Exponential(state, mean) == ExpUnits(state) * mean

ProductTypes == << "Type A", "Type B", "Type C", "Type D" >>

\* choice(items): items[Math.floor(u * items.length)] for the draw that left
\* the generator in `state`; an index outside the array reads undefined.
Choice(state, items) ==
    LET prod == state * Len(items)
        idx  == IF prod >= 0 THEN prod \div LcgModulus
                ELSE 0 - ((0 - prod + LcgModulus - 1) \div LcgModulus)
    IN IF idx >= 0 /\ idx < Len(items) THEN items[idx + 1] ELSE "undefined"

\* new Random(config.seed): the state of the new generator.  `leftover` is
\* the state in which the generator of the previous run was left; a fresh
\* generator takes nothing from it.
NewRandom_leftover(seed, leftover) == leftover
NewRandom(seed, leftover) == seed

----------------------------------------------------------------------------
(* Events and the scheduler.                                               *)

NoJob == 0

SimEvent(type, time, job) == [type |-> type, time |-> time, job |-> job]

\* queue.push(ev); queue.sort((a, b) => a.time - b.time).  The array is
\* sorted before the push and Array.prototype.sort is stable (ES2019), so the
\* new event lands behind every pending event whose time is not larger.
Schedule_beforeTies(queue, ev) ==
    LET k == Cardinality({i \in 1..Len(queue) : queue[i].time < ev.time})
    IN SubSeq(queue, 1, k) \o << ev >> \o SubSeq(queue, k + 1, Len(queue))
Schedule(queue, ev) ==
    LET k == Cardinality({i \in 1..Len(queue) : queue[i].time <= ev.time})
    IN SubSeq(queue, 1, k) \o << ev >> \o SubSeq(queue, k + 1, Len(queue))

\* getProcessTime: the mean service time, in fifths of a minute.
BaseMean(type) ==
    CASE type = "Type A" -> 50
      [] type = "Type B" -> 75
      [] type = "Type C" -> 100
      [] type = "Type D" -> 60
      [] OTHER -> 50

StageMean(stage, type) ==
    CASE stage = "moulding"   -> BaseMean(type)
      [] stage = "inspection" -> (BaseMean(type) * 8) \div 10
      [] stage = "packaging"  -> (BaseMean(type) * 6) \div 10

GetProcessTime(state, stage, type) == Exponential(state, StageMean(stage, type))

Stages == << "moulding", "inspection", "packaging" >>

StartField(stage) ==
    CASE stage = "moulding"   -> "mouldingStartTime"
      [] stage = "inspection" -> "inspectionStartTime"
      [] stage = "packaging"  -> "packagingStartTime"

EndField(stage) ==
    CASE stage = "moulding"   -> "mouldingEndTime"
      [] stage = "inspection" -> "inspectionEndTime"
      [] stage = "packaging"  -> "packagingEndTime"

FinishType(stage) ==
    CASE stage = "moulding"   -> "MOULDING_FINISH"
      [] stage = "inspection" -> "INSPECTION_FINISH"
      [] stage = "packaging"  -> "PACKAGING_FINISH"

----------------------------------------------------------------------------
(* One run: the locals of runSingleSimulation as a record, and the parts   *)
(* of the event switch as functions on it.                                 *)

NewJob(id, type, now) ==
    [ id |-> id, productType |-> type, arrivalTime |-> now, finished |-> FALSE,
      mouldingStartTime |-> Unset, mouldingEndTime |-> Unset,
      inspectionStartTime |-> Unset, inspectionEndTime |-> Unset,
      packagingStartTime |-> Unset, packagingEndTime |-> Unset ]

\* Lines 68-91 and 114: the fresh locals and the first scheduled arrival.
StartRun(config, leftover) ==
    LET s1 == RandomNext(NewRandom(config.seed, leftover))
    IN [ random        |-> s1,
         currentTime   |-> 0,
         queue         |-> << SimEvent("ARRIVAL",
                                       Exponential(s1, config.arrivalIntervalMean),
                                       NoJob) >>,
         jobs          |-> << >>,
         free          |-> [ moulding   |-> config.mouldingMachines,
                             inspection |-> config.inspectionStations,
                             packaging  |-> config.packagingMachines ],
         waitQueue     |-> [ moulding |-> << >>, inspection |-> << >>,
                             packaging |-> << >> ],
         busy          |-> [ moulding |-> 0, inspection |-> 0, packaging |-> 0 ],
         lastEventTime |-> 0,
         wipArea       |-> 0,
         currentWip    |-> 0 ]

\* while (queue.length > 0 && currentTime < config.duration)
LoopGuard_queueOnly(config, queue, currentTime) == Len(queue) > 0
LoopGuard(config, queue, currentTime) ==
    Len(queue) > 0 /\ currentTime < config.duration

\* const event = queue.shift(); wipArea += currentWip * (event.time -
\* lastEventTime); lastEventTime = event.time; currentTime = event.time
TakeEvent_postWip(st) ==
    LET event == Head(st.queue)
        post  == st.currentWip + (CASE event.type = "ARRIVAL" -> 1
                                    [] event.type = "PACKAGING_FINISH" -> 0 - 1
                                    [] OTHER -> 0)
    IN [ st EXCEPT !.queue = Tail(st.queue),
                   !.wipArea = st.wipArea + post * (event.time - st.lastEventTime),
                   !.lastEventTime = event.time,
                   !.currentTime = event.time ]
TakeEvent(st) ==
    LET event == Head(st.queue)
    IN [ st EXCEPT !.queue = Tail(st.queue),
                   !.wipArea = st.wipArea + st.currentWip * (event.time - st.lastEventTime),
                   !.lastEventTime = event.time,
                   !.currentTime = event.time ]

\* Start job `id` on a server of `stage` now, drawing its service time.
StartService_noFinishEvent(st, stage, id) ==
    [ st EXCEPT !.random = RandomNext(st.random),
                !.free[stage] = st.free[stage] - 1,
                !.jobs[id][StartField(stage)] = Some(st.currentTime) ]
StartService_noDecrement(st, stage, id) ==
    LET s1  == RandomNext(st.random)
        now == st.currentTime
        job == st.jobs[id]
    IN [ st EXCEPT !.random = s1,
                   !.jobs[id][StartField(stage)] = Some(now),
                   !.queue = Schedule(st.queue,
                                SimEvent(FinishType(stage),
                                         now + GetProcessTime(s1, stage, job.productType),
                                         id)) ]
StartService(st, stage, id) ==
    LET s1  == RandomNext(st.random)
        now == st.currentTime
        job == st.jobs[id]
    IN [ st EXCEPT !.random = s1,
                   !.free[stage] = st.free[stage] - 1,
                   !.jobs[id][StartField(stage)] = Some(now),
                   !.queue = Schedule(st.queue,
                                SimEvent(FinishType(stage),
                                         now + GetProcessTime(s1, stage, job.productType),
                                         id)) ]

\* if (free > 0) { free--; start = now; schedule finish } else queue.push(job)
TryStart_alwaysQueue(st, stage, id) ==
    [ st EXCEPT !.waitQueue[stage] = Append(st.waitQueue[stage], id) ]
TryStart_nonNegative(st, stage, id) ==
    IF st.free[stage] >= 0
    THEN StartService(st, stage, id)
    ELSE [ st EXCEPT !.waitQueue[stage] = Append(st.waitQueue[stage], id) ]
TryStart(st, stage, id) ==
    IF st.free[stage] > 0
    THEN StartService(st, stage, id)
    ELSE [ st EXCEPT !.waitQueue[stage] = Append(st.waitQueue[stage], id) ]

\* if (job.stageStartTime) totalBusyTime += currentTime - job.stageStartTime
BusyAfter(busy, now, start) ==
    IF Truthy(start) THEN busy + (now - Val(start)) ELSE busy

\* The head of a finish case: stamp the end, account the busy time, free the
\* server, and hand it to the head of the stage's wait queue if there is one.
Finish_noHandOver(st, stage, id) ==
    [ st EXCEPT !.jobs[id][EndField(stage)] = Some(st.currentTime),
                !.busy[stage] = BusyAfter(st.busy[stage], st.currentTime,
                                          st.jobs[id][StartField(stage)]),
                !.free[stage] = st.free[stage] + 1 ]
Finish_lifo(st, stage, id) ==
    LET now == st.currentTime
        a   == [ st EXCEPT !.jobs[id][EndField(stage)] = Some(now),
                           !.busy[stage] = BusyAfter(st.busy[stage], now,
                                                     st.jobs[id][StartField(stage)]),
                           !.free[stage] = st.free[stage] + 1 ]
        w   == a.waitQueue[stage]
    IN IF Len(w) > 0
       THEN StartService([ a EXCEPT !.waitQueue[stage] = SubSeq(w, 1, Len(w) - 1) ],
                         stage, w[Len(w)])
       ELSE a
Finish(st, stage, id) ==
    LET now == st.currentTime
        a   == [ st EXCEPT !.jobs[id][EndField(stage)] = Some(now),
                           !.busy[stage] = BusyAfter(st.busy[stage], now,
                                                     st.jobs[id][StartField(stage)]),
                           !.free[stage] = st.free[stage] + 1 ]
    IN IF Len(a.waitQueue[stage]) > 0
       THEN StartService([ a EXCEPT !.waitQueue[stage] = Tail(a.waitQueue[stage]) ],
                         stage, Head(a.waitQueue[stage]))
       ELSE a

\* currentWip++ / currentWip--
WipOnArrival_none(w) == w
WipOnArrival(w) == w + 1
WipOnPackagingFinish_none(w) == w
WipOnPackagingFinish(w) == w - 1

\* case EventType.ARRIVAL
ArrivalCase(config, st) ==
    LET now  == st.currentTime
        s1   == RandomNext(st.random)
        s2   == RandomNext(s1)
        id   == Len(st.jobs) + 1
        job  == NewJob(id, Choice(s1, ProductTypes), now)
        nextArrival == now + Exponential(s2, config.arrivalIntervalMean)
        a    == [ st EXCEPT !.currentWip = WipOnArrival(st.currentWip),
                            !.jobs = Append(st.jobs, job),
                            !.random = s2,
                            !.queue = IF nextArrival < config.duration
                                      THEN Schedule(st.queue,
                                               SimEvent("ARRIVAL", nextArrival, NoJob))
                                      ELSE st.queue ]
    IN TryStart(a, "moulding", id)

\* case EventType.MOULDING_FINISH
MouldingFinishCase_skipInspection(st, id) ==
    TryStart(Finish(st, "moulding", id), "packaging", id)
MouldingFinishCase(st, id) == TryStart(Finish(st, "moulding", id), "inspection", id)

\* case EventType.INSPECTION_FINISH
InspectionFinishCase_restampsMoulding(st, id) ==
    LET a == TryStart(Finish(st, "inspection", id), "packaging", id)
    IN [ a EXCEPT !.jobs[id].mouldingEndTime = Some(st.currentTime) ]
InspectionFinishCase(st, id) == TryStart(Finish(st, "inspection", id), "packaging", id)

\* case EventType.PACKAGING_FINISH
PackagingFinishCase_notFinished(st, id) ==
    Finish([ st EXCEPT !.currentWip = WipOnPackagingFinish(st.currentWip) ],
           "packaging", id)
PackagingFinishCase(st, id) ==
    LET a == [ st EXCEPT !.currentWip = WipOnPackagingFinish(st.currentWip) ]
        b == Finish(a, "packaging", id)
    IN [ b EXCEPT !.jobs[id].finished = TRUE ]

----------------------------------------------------------------------------
(* Run statistics (lines 210-271).                                         *)

\* n / d truncated toward zero, d # 0.
Div(n, d) ==
    LET an == IF n >= 0 THEN n ELSE 0 - n
        ad == IF d >= 0 THEN d ELSE 0 - d
        q  == an \div ad
    IN IF (n >= 0) = (d >= 0) THEN q ELSE 0 - q

\* const safeDiv = (n, d) => d === 0 ? 0 : n / d
SafeDiv(n, d) == IF d = 0 THEN 0 ELSE Div(n, d)

\* The numbers that are not finite, as integers outside the range of every
\* finite value of the model.
Infinity == 2 * 1000000000
NegInfinity == 0 - Infinity
NaN == NegInfinity - 1
NonFinite == { NaN, Infinity, NegInfinity }

\* n / d of JavaScript: 0/0 is NaN, and x/0 is an infinity with the sign of x.
JsDiv(n, d) ==
    IF d # 0 THEN Div(n, d)
    ELSE IF n = 0 THEN NaN
    ELSE IF n > 0 THEN Infinity
    ELSE NegInfinity

RECURSIVE InsertSorted(_, _)
InsertSorted(sorted, x) ==
    IF sorted = << >> THEN << x >>
    ELSE IF x < Head(sorted) THEN << x >> \o sorted
    ELSE << Head(sorted) >> \o InsertSorted(Tail(sorted), x)

\* arr.sort((a, b) => a - b)
SortAscending_jobOrder(arr) == arr
RECURSIVE SortAscending(_)
SortAscending(arr) ==
    IF arr = << >> THEN << >>
    ELSE InsertSorted(SortAscending(SubSeq(arr, 1, Len(arr) - 1)), arr[Len(arr)])

\* calcStats, on the array already sorted in place.
CalcStats_firstAsMax(sorted) ==
    IF Len(sorted) = 0 THEN [ avg |-> 0, p90 |-> 0, max |-> 0 ]
    ELSE [ avg |-> Div(SumSeq(sorted), Len(sorted)),
           p90 |-> sorted[((Len(sorted) * 9) \div 10) + 1],
           max |-> sorted[1] ]
CalcStats(sorted) ==
    IF Len(sorted) = 0 THEN [ avg |-> 0, p90 |-> 0, max |-> 0 ]
    ELSE [ avg |-> Div(SumSeq(sorted), Len(sorted)),
           p90 |-> sorted[((Len(sorted) * 9) \div 10) + 1],
           max |-> sorted[Len(sorted)] ]

\* The wait of every job that passes the jobs.forEach test of a stage, in
\* job order.
MouldingWaits(jobs) ==
    LET sel == SelectSeq(jobs, LAMBDA j : Truthy(j.mouldingStartTime))
    IN [ k \in 1..Len(sel) |-> Val(sel[k].mouldingStartTime) - sel[k].arrivalTime ]

InspectionWaits(jobs) ==
    LET sel == SelectSeq(jobs, LAMBDA j : Truthy(j.inspectionStartTime)
                                           /\ Truthy(j.mouldingEndTime))
    IN [ k \in 1..Len(sel) |-> Val(sel[k].inspectionStartTime) - Val(sel[k].mouldingEndTime) ]

PackagingWaits(jobs) ==
    LET sel == SelectSeq(jobs, LAMBDA j : Truthy(j.packagingStartTime)
                                           /\ Truthy(j.inspectionEndTime))
    IN [ k \in 1..Len(sel) |-> Val(sel[k].packagingStartTime) - Val(sel[k].inspectionEndTime) ]

\* totalDegradation += Math.max(0, wait - threshold) * costPerMinute
TotalDegradation_noFloor(config, waits) ==
    SumSeq([ k \in 1..Len(waits) |->
               (waits[k] - config.degradationThreshold)
                 * config.degradationCostPerMinute ])
TotalDegradation(config, waits) ==
    SumSeq([ k \in 1..Len(waits) |->
               Max(0, waits[k] - config.degradationThreshold)
                 * config.degradationCostPerMinute ])

\* totalLeadTime += packagingEndTime - arrivalTime, for finished jobs
TotalLeadTime(jobs) ==
    LET sel == SelectSeq(jobs, LAMBDA j : j.finished /\ Truthy(j.packagingEndTime))
    IN SumSeq([ k \in 1..Len(sel) |-> Val(sel[k].packagingEndTime) - sel[k].arrivalTime ])

\* { mean: avg, lower: avg, upper: avg } of a single run
SingleRunCI_zeroLower(avg) == [ mean |-> avg, lower |-> 0, upper |-> avg ]
SingleRunCI(avg) == [ mean |-> avg, lower |-> avg, upper |-> avg ]

\* const completed = jobs.filter(j => j.finished)
Completed_all(jobs) == jobs
Completed(jobs) == SelectSeq(jobs, LAMBDA j : j.finished)

\* throughput: completed.length / (config.duration / 60), in jobs per hour
\* times Scale; the division is not guarded.
Throughput(completedCount, duration) ==
    JsDiv(completedCount * Scale * 60 * TicksPerMinute, duration)

\* const avgCost = safeDiv(totalDegradation, jobs.length)
AvgCost_perCompleted(totalDegradation, jobs, completed) ==
    SafeDiv(totalDegradation, Len(completed))
AvgCost(totalDegradation, jobs, completed) ==
    SafeDiv(totalDegradation, Len(jobs))

\* The object returned by runSingleSimulation.
RunStats(config, st) ==
    LET jobs      == st.jobs
        completed == Completed(jobs)
        wm        == MouldingWaits(jobs)
        wi        == InspectionWaits(jobs)
        wp        == PackagingWaits(jobs)
        totalDeg  == TotalDegradation(config, wi)
        avgLead   == SafeDiv(TotalLeadTime(jobs), Len(completed))
        avgCost   == AvgCost(totalDeg, jobs, completed)
        good      == Len(SelectSeq(wi, LAMBDA w : w < ServiceThreshold))
        sm        == SortAscending(wm)
        si        == SortAscending(wi)
        sp        == SortAscending(wp)
    IN [ totalJobs     |-> Len(jobs),
         completedJobs |-> Len(completed),
         throughput    |-> Throughput(Len(completed), config.duration),
         avgWip        |-> SafeDiv(st.wipArea * Scale, config.duration),
         serviceLevel  |-> SafeDiv(good * Scale, Len(wi)),
         avgLeadTime   |-> avgLead,
         leadTimeCI    |-> SingleRunCI(avgLead),
         totalDegradationCost      |-> totalDeg,
         avgDegradationCostPerPart |-> avgCost,
         costCI        |-> SingleRunCI(avgCost),
         waitTimes     |-> [ moulding |-> sm, inspection |-> si, packaging |-> sp ],
         waitStats     |-> [ moulding   |-> CalcStats(sm),
                             inspection |-> CalcStats(si),
                             packaging  |-> CalcStats(sp) ],
         machineUtilization |->
             [ moulding   |-> SafeDiv(st.busy.moulding * Scale,
                                      config.duration * config.mouldingMachines),
               inspection |-> SafeDiv(st.busy.inspection * Scale,
                                      config.duration * config.inspectionStations),
               packaging  |-> SafeDiv(st.busy.packaging * Scale,
                                      config.duration * config.packagingMachines) ] ]

----------------------------------------------------------------------------
(* aggregateResults (lines 274-338).                                       *)

\* Math.sqrt of a non-negative integer, truncated.
RECURSIVE SqrtBetween(_, _, _)
SqrtBetween(n, lo, hi) ==
    IF lo >= hi THEN lo
    ELSE LET mid == (lo + hi + 1) \div 2
         IN IF mid * mid <= n THEN SqrtBetween(n, mid, hi)
            ELSE SqrtBetween(n, lo, mid - 1)

Sqrt(n) == SqrtBetween(n, 0, Min(n, 46340))

\* Math.round of the quotient sum / count of non-negative integers.
RoundDiv(sum, count) == (2 * sum + count) \div (2 * count)

\* runs.map(s => s[field])
Pluck(runs, field) == [ k \in 1..Len(runs) |-> runs[k][field] ]

\* runs.map(s => s[group][key])
Pluck2(runs, group, key) == [ k \in 1..Len(runs) |-> runs[k][group][key] ]

\* runs.map(s => s.waitStats[key][stat])
PluckWaitStat(runs, key, stat) ==
    [ k \in 1..Len(runs) |-> runs[k].waitStats[key][stat] ]

\* A sum with a term that is not finite: NaN if a term is NaN or if both
\* infinities occur, else the infinity that occurs.
NonFiniteSum(values) ==
    LET has(x) == \E k \in 1..Len(values) : values[k] = x
    IN IF has(NaN) \/ (has(Infinity) /\ has(NegInfinity)) THEN NaN
       ELSE IF has(Infinity) THEN Infinity
       ELSE NegInfinity

\* const avg = extractor => runs.reduce((sum, s) => sum + extractor(s), 0) / count
Avg(values) ==
    IF \E k \in 1..Len(values) : values[k] \in NonFinite
    THEN NonFiniteSum(values)
    ELSE Div(SumSeq(values), Len(values))

\* mean +/- 1.96 * (stdDev / sqrt(N)); square roots are kept in tenths.
CIBounds_swapped(mean, margin) ==
    [ mean |-> mean, lower |-> mean + margin, upper |-> mean - margin ]
CIBounds(mean, margin) ==
    [ mean |-> mean, lower |-> mean - margin, upper |-> mean + margin ]

CalcCI(values) ==
    LET count    == Len(values)
        mean     == Div(SumSeq(values), count)
        variance == Div(SumSeq([ k \in 1..count |->
                                   (values[k] - mean) * (values[k] - mean) ]),
                        IF count - 1 # 0 THEN count - 1 ELSE 1)
        stdDev10 == Sqrt(variance * 100)
        rootN10  == Sqrt(count * 100)
        margin   == Div(ZScore * stdDev10, 100 * rootN10)
    IN CIBounds(mean, margin)

RECURSIVE Concat(_)
Concat(seqs) == IF seqs = << >> THEN << >> ELSE Head(seqs) \o Concat(Tail(seqs))

\* runs.reduce((arr, s) => [...arr, ...s.waitTimes[key]], [])
CombineWaits(runs, key) == Concat(Pluck2(runs, "waitTimes", key))

AvgWaitStat_firstMax(runs, key) ==
    [ avg |-> Avg(PluckWaitStat(runs, key, "avg")),
      p90 |-> Avg(PluckWaitStat(runs, key, "p90")),
      max |-> PluckWaitStat(runs, key, "max")[1] ]
AvgWaitStat(runs, key) ==
    [ avg |-> Avg(PluckWaitStat(runs, key, "avg")),
      p90 |-> Avg(PluckWaitStat(runs, key, "p90")),
      max |-> MaxSeq(PluckWaitStat(runs, key, "max")) ]

\* Math.round(avg(s => s.totalJobs)), Math.round(avg(s => s.completedJobs))
AggregateCount_floor(values) == SumSeq(values) \div Len(values)
AggregateCount(values) == RoundDiv(SumSeq(values), Len(values))

AggregateResults(runs) ==
    IF Len(runs) = 1 THEN runs[1]
    ELSE [ totalJobs     |-> AggregateCount(Pluck(runs, "totalJobs")),
           completedJobs |-> AggregateCount(Pluck(runs, "completedJobs")),
           throughput    |-> Avg(Pluck(runs, "throughput")),
           avgWip        |-> Avg(Pluck(runs, "avgWip")),
           serviceLevel  |-> Avg(Pluck(runs, "serviceLevel")),
           avgLeadTime   |-> Avg(Pluck(runs, "avgLeadTime")),
           leadTimeCI    |-> CalcCI(Pluck(runs, "avgLeadTime")),
           totalDegradationCost      |-> Avg(Pluck(runs, "totalDegradationCost")),
           avgDegradationCostPerPart |-> Avg(Pluck(runs, "avgDegradationCostPerPart")),
           costCI        |-> CalcCI(Pluck(runs, "avgDegradationCostPerPart")),
           waitTimes     |-> [ moulding   |-> CombineWaits(runs, "moulding"),
                               inspection |-> CombineWaits(runs, "inspection"),
                               packaging  |-> CombineWaits(runs, "packaging") ],
           waitStats     |-> [ moulding   |-> AvgWaitStat(runs, "moulding"),
                               inspection |-> AvgWaitStat(runs, "inspection"),
                               packaging  |-> AvgWaitStat(runs, "packaging") ],
           machineUtilization |->
               [ moulding   |-> Avg(Pluck2(runs, "machineUtilization", "moulding")),
                 inspection |-> Avg(Pluck2(runs, "machineUtilization", "inspection")),
                 packaging  |-> Avg(Pluck2(runs, "machineUtilization", "packaging")) ] ]

----------------------------------------------------------------------------
(* SimulationEngine.run (lines 51-65).                                     *)

\* const runs = Math.max(1, this.config.replications)
Runs(config) == Max(1, config.replications)

\* const runConfig = { ...this.config, seed: this.config.seed + i }
RunConfig_sameSeed(config, i) == config
RunConfig(config, i) == [ config EXCEPT !.seed = config.seed + i ]

----------------------------------------------------------------------------
(* runSensitivityAnalysis of the App component (src/unnamed/part_001).     *)

\* const sensitivityConfig = { ...config, replications: Math.min(config.replications, 5) }
SensitivityConfig_uncapped(config) == config
SensitivityConfig(config) ==
    [ config EXCEPT !.replications = Min(config.replications, SweepReplicationCap) ]

\* The config field that holds the server count of a stage variable.
CountField(variable) ==
    CASE variable = "moulding"   -> "mouldingMachines"
      [] variable = "inspection" -> "inspectionStations"
      [] variable = "packaging"  -> "packagingMachines"

\* const testConfig = { ...sensitivityConfig }; testConfig.<count of variable> = i
TestConfig(sensitivityConfig, variable, i) ==
    [ sensitivityConfig EXCEPT ![CountField(variable)] = i ]

\* `${i}` for the values of the sweep.
Label(i) == << "1", "2", "3", "4", "5", "6", "7", "8", "9", "10" >>[i]

\* The point pushed for value i and the result res of its run.
SensitivityPoint(i, res, variable) ==
    [ label    |-> Label(i),
      xValue   |-> i,
      cost     |-> res.avgDegradationCostPerPart,
      avgWait  |-> res.waitStats[variable].avg,
      variable |-> variable ]

----------------------------------------------------------------------------
(* The configurations explored.                                            *)

Seeds == { 42, 0, 7, 22643 }

\* A seed whose generator states are negative for the first 17 draws and
\* non-negative from then on (the states of most seeds <= -6 stay negative
\* for thousands of draws).
NegativeSeeds == { 0 - 509 }
Durations == { 30 * TicksPerMinute, 60 * TicksPerMinute }
ServerCounts == { 1, 2 }
Thresholds == { 0, 2 * TicksPerMinute }

\* Mean inter-arrival times, in fifths of a minute (5 and 20 minutes).
ArrivalMeans == { 25, 100 }

ConfigsWith(replications, seeds, arrivalMeans) ==
    [ duration : Durations,
      mouldingMachines : ServerCounts,
      inspectionStations : ServerCounts,
      packagingMachines : { 1 },
      arrivalIntervalMean : arrivalMeans,
      degradationCostPerMinute : { 3 },
      degradationThreshold : Thresholds,
      replications : replications,
      seed : seeds ]

\* The negative seed is explored with one replication (seed + 1 is a seed
\* whose run the model cannot follow to its end) and with the mean
\* inter-arrival time of 5 minutes, for which the clock of the run, which
\* starts below 0, stamps no job at tick 0: a stamp of exactly 0 is falsy in
\* the source, and the doubles of the source do not cancel to 0 there.
Configs ==
    ConfigsWith(1..MaxReplications, Seeds, ArrivalMeans)
        \cup ConfigsWith({ 1 }, NegativeSeeds, { 25 })

\* Configurations in which one field that should be positive is 0 or
\* negative (replications included, which run() raises to 1), the other
\* fields being those of a valid configuration.
ValidConfigs ==
    [ duration : { 60 * TicksPerMinute },
      mouldingMachines : { 1 },
      inspectionStations : { 1 },
      packagingMachines : { 1 },
      arrivalIntervalMean : { 25 },
      degradationCostPerMinute : { 3 },
      degradationThreshold : { 0 },
      replications : { 1 },
      seed : { 42, 7 } ]

DegenerateConfigs ==
    UNION { { [ c EXCEPT !.duration = v ] : v \in { 0, 0 - 60 * TicksPerMinute } }
            \cup { [ c EXCEPT !.mouldingMachines = v ] : v \in { 0, 0 - 1 } }
            \cup { [ c EXCEPT !.inspectionStations = v ] : v \in { 0, 0 - 1 } }
            \cup { [ c EXCEPT !.packagingMachines = v ] : v \in { 0, 0 - 1 } }
            \cup { [ c EXCEPT !.arrivalIntervalMean = v ] : v \in { 0, 0 - 25 } }
            \cup { [ c EXCEPT !.replications = v ] : v \in { 0, 0 - 1 } }
          : c \in ValidConfigs }

\* The configurations of the App on which a sensitivity sweep is followed.
SweepConfigs ==
    [ duration : { 30 * TicksPerMinute },
      mouldingMachines : { 2 },
      inspectionStations : { 2 },
      packagingMachines : { 1 },
      arrivalIntervalMean : { 25 },
      degradationCostPerMinute : { 3 },
      degradationThreshold : { 0 },
      replications : { 1, SweepReplicationCap + 1 },
      seed : { 42 } ]

----------------------------------------------------------------------------
(* State.                                                                  *)

VARIABLES
    config,         \* this.config of the engine whose run() is executing
    pc,             \* "loop": in runSingleSimulation; "aggregate"; "returned"
    replication,    \* i, the loop index of run()
    results,        \* results: the statistics of the replications done
    randomSeed,     \* Random.seed
    currentTime, queue, jobs,
    free,           \* mouldingFree, inspectionFree, packagingFree
    waitQueue,      \* mouldingQueue, inspectionQueue, packagingQueue
    busy,           \* totalMouldingBusyTime, totalInspectionBusyTime, ...
    lastEventTime, wipArea, currentWip,
    processed,      \* events taken from the queue in this run
    lastEvent,      \* the event the last iteration took (<< >> before the first)
    taken,          \* the events this run has taken from the queue, in order
    sensitivity,    \* the state of the App and the locals of its sensitivity
                    \* analysis while one executes, else Unset
    calls           \* the invocations of run() that returned, in order

vars == << config, pc, replication, results, randomSeed, currentTime, queue, jobs, free,
           waitQueue, busy, lastEventTime, wipArea, currentWip, processed,
           lastEvent, taken, sensitivity, calls >>

Locals ==
    [ random |-> randomSeed, currentTime |-> currentTime, queue |-> queue,
      jobs |-> jobs, free |-> free, waitQueue |-> waitQueue, busy |-> busy,
      lastEventTime |-> lastEventTime, wipArea |-> wipArea,
      currentWip |-> currentWip ]

SetLocals(st) ==
    /\ randomSeed' = st.random
    /\ currentTime' = st.currentTime
    /\ queue' = st.queue
    /\ jobs' = st.jobs
    /\ free' = st.free
    /\ waitQueue' = st.waitQueue
    /\ busy' = st.busy
    /\ lastEventTime' = st.lastEventTime
    /\ wipArea' = st.wipArea
    /\ currentWip' = st.currentWip

mouldingFree == free.moulding
inspectionFree == free.inspection
packagingFree == free.packaging

\* An engine constructed with one of `configs`, at the start of run().
EngineStart(configs) ==
    /\ config \in configs
    /\ pc = "loop"
    /\ replication = 0
    /\ results = << >>
    /\ LET st == StartRun(RunConfig(config, 0), 0)
       IN /\ randomSeed = st.random
          /\ currentTime = st.currentTime
          /\ queue = st.queue
          /\ jobs = st.jobs
          /\ free = st.free
          /\ waitQueue = st.waitQueue
          /\ busy = st.busy
          /\ lastEventTime = st.lastEventTime
          /\ wipArea = st.wipArea
          /\ currentWip = st.currentWip
    /\ processed = 0
    /\ lastEvent = << >>
    /\ taken = << >>
    /\ calls = << >>

\* run() invoked on its own.
Start(configs) == EngineStart(configs) /\ sensitivity = Unset

Init == Start(Configs)

InitDegenerate == Start(DegenerateConfigs)

runConfig == RunConfig(config, replication)

\* The loop test holds and the next event has the given type.
Takes(type) ==
    /\ pc = "loop"
    /\ LoopGuard(runConfig, queue, currentTime)
    /\ processed < MaxEvents
    /\ Head(queue).type = type

Step(st) ==
    /\ SetLocals(st)
    /\ processed' = processed + 1
    /\ lastEvent' = << Head(queue) >>
    /\ taken' = Append(taken, Head(queue))
    /\ UNCHANGED << config, pc, replication, results, sensitivity, calls >>

Arrival ==
    /\ Takes("ARRIVAL")
    /\ Step(ArrivalCase(runConfig, TakeEvent(Locals)))

MouldingFinish ==
    /\ Takes("MOULDING_FINISH")
    /\ Step(MouldingFinishCase(TakeEvent(Locals), Head(queue).job))

InspectionFinish ==
    /\ Takes("INSPECTION_FINISH")
    /\ Step(InspectionFinishCase(TakeEvent(Locals), Head(queue).job))

PackagingFinish ==
    /\ Takes("PACKAGING_FINISH")
    /\ Step(PackagingFinishCase(TakeEvent(Locals), Head(queue).job))

\* The loop of a run is over: its statistics are pushed, and run() goes on
\* to the next replication or to aggregateResults.
EndRun ==
    /\ pc = "loop"
    /\ ~LoopGuard(runConfig, queue, currentTime)
    /\ results' = Append(results, RunStats(runConfig, Locals))
    /\ IF replication + 1 < Runs(config)
       THEN /\ replication' = replication + 1
            /\ SetLocals(StartRun(RunConfig(config, replication + 1), randomSeed))
            /\ processed' = 0
            /\ lastEvent' = << >>
            /\ taken' = << >>
            /\ pc' = "loop"
       ELSE /\ pc' = "aggregate"
            /\ UNCHANGED << replication, randomSeed, currentTime, queue, jobs, free,
                            waitQueue, busy, lastEventTime, wipArea, currentWip,
                            processed, lastEvent, taken >>
    /\ UNCHANGED << config, sensitivity, calls >>

\* return this.aggregateResults(results)
Return ==
    /\ pc = "aggregate"
    /\ calls' = Append(calls, [ config |-> config, runs |-> results,
                                stats |-> AggregateResults(results) ])
    /\ pc' = "returned"
    /\ UNCHANGED << config, replication, results, randomSeed, currentTime, queue, jobs,
                    free, waitQueue, busy, lastEventTime, wipArea, currentWip,
                    processed, lastEvent, taken, sensitivity >>

\* The configurations of a following invocation: the same one again, or one
\* replication of it on its own (seed + k, replications = 1).
FollowUps(c) ==
    { c } \cup { [ c EXCEPT !.seed = c.seed + k, !.replications = 1 ] :
                 k \in 0..(Runs(c) - 1) }

\* new SimulationEngine(c).run(), up to the start of its first run.
NewEngineRun(c) ==
    /\ config' = c
    /\ SetLocals(StartRun(RunConfig(c, 0), randomSeed))
    /\ pc' = "loop"
    /\ replication' = 0
    /\ results' = << >>
    /\ processed' = 0
    /\ lastEvent' = << >>
    /\ taken' = << >>

Invoke ==
    /\ pc = "returned"
    /\ Len(calls) < MaxInvocations
    /\ \E c \in FollowUps(calls[1].config) : NewEngineRun(c)
    /\ UNCHANGED << sensitivity, calls >>

Next ==
    \/ Arrival
    \/ MouldingFinish
    \/ InspectionFinish
    \/ PackagingFinish
    \/ EndRun
    \/ Return
    \/ Invoke

Spec == Init /\ [][Next]_vars

\* runSensitivityAnalysis(variable), from the start of the timeout callback:
\* the points array is empty, sensitivityConfig is made and the engine of
\* the first value is constructed.
InitSweep ==
    \E c \in SweepConfigs : \E n \in 1..Len(Stages) :
        /\ EngineStart({ TestConfig(SensitivityConfig(c), Stages[n], 1) })
        /\ sensitivity = Some([ config            |-> c,
                                sensitivityData   |-> << >>,
                                stats             |-> Unset,
                                loading           |-> TRUE,
                                variable          |-> Stages[n],
                                points            |-> << >>,
                                sensitivityConfig |-> SensitivityConfig(c),
                                i                 |-> 1 ])

\* The run of value i has returned: its point is pushed and the loop goes on
\* to the engine of value i + 1; after the last value the points are stored
\* with setSensitivityData and the engine of the App's own config is run.
SweepPoint ==
    /\ pc = "returned"
    /\ IsSet(sensitivity)
    /\ Val(sensitivity).i <= SweepPoints
    /\ LET s      == Val(sensitivity)
           res    == calls[Len(calls)].stats
           points == Append(s.points, SensitivityPoint(s.i, res, s.variable))
       IN IF s.i < SweepPoints
          THEN /\ sensitivity' = Some([ s EXCEPT !.points = points, !.i = s.i + 1 ])
               /\ NewEngineRun(TestConfig(s.sensitivityConfig, s.variable, s.i + 1))
          ELSE /\ sensitivity' = Some([ s EXCEPT !.points = points, !.i = s.i + 1,
                                                 !.sensitivityData = points ])
               /\ NewEngineRun(s.config)
    /\ UNCHANGED calls

\* setStats(currentResults); setLoading(false)
SweepDone ==
    /\ pc = "returned"
    /\ IsSet(sensitivity)
    /\ Val(sensitivity).i = SweepPoints + 1
    /\ Val(sensitivity).loading
    /\ sensitivity' = Some([ Val(sensitivity) EXCEPT
                               !.stats = Some(calls[Len(calls)].stats),
                               !.loading = FALSE ])
    /\ UNCHANGED << config, pc, replication, results, randomSeed, currentTime, queue,
                    jobs, free, waitQueue, busy, lastEventTime, wipArea, currentWip,
                    processed, lastEvent, taken, calls >>

NextSweep ==
    \/ Arrival
    \/ MouldingFinish
    \/ InspectionFinish
    \/ PackagingFinish
    \/ EndRun
    \/ Return
    \/ SweepPoint
    \/ SweepDone

SpecSweep == InitSweep /\ [][NextSweep]_vars

\* run() on the configurations with a field at 0 or below.
SpecDegenerate == InitDegenerate /\ [][Next]_vars

\* run() executes synchronously on one thread, which does not stop while the
\* function has a step to take.  Advance is a step of Next told by its
\* effect on the control state alone (every step of Next is one, and
\* Advance can be taken exactly when Next can), so that whether it is
\* enabled is decided without computing the successor state.
control == << pc, replication, processed >>

Advance ==
    \/ /\ pc = "loop"
       /\ LoopGuard(runConfig, queue, currentTime)
       /\ processed < MaxEvents
       /\ processed' = processed + 1
       /\ UNCHANGED << pc, replication >>
    \/ /\ pc = "loop"
       /\ ~LoopGuard(runConfig, queue, currentTime)
       /\ IF replication + 1 < Runs(config)
          THEN replication' = replication + 1 /\ processed' = 0 /\ pc' = "loop"
          ELSE pc' = "aggregate" /\ UNCHANGED << replication, processed >>
    \/ /\ pc = "aggregate"
       /\ pc' = "returned"
       /\ UNCHANGED << replication, processed >>
    \/ /\ pc = "returned"
       /\ Len(calls) < MaxInvocations
       /\ pc' = "loop"
       /\ replication' = 0
       /\ processed' = 0

FairSpec == Spec /\ WF_control(Advance)

----------------------------------------------------------------------------
(* Properties.                                                             *)

\* The loop of the current run has ended and its locals are final.
LoopOver ==
    \/ pc = "loop" /\ ~LoopGuard(runConfig, queue, currentTime)
    \/ pc = "aggregate"

\* The last step took an event of the given type from the queue.
Took(type) == lastEvent # << >> /\ lastEvent[1].type = type

\* C1: two invocations of run() with the same config (seed and replications
\* included) return the same SimulationStats, and computed the same per-run
\* statistics on the way.
C1_Determinism ==
    \A a, b \in 1..Len(calls) :
        (a < b /\ calls[a].config = calls[b].config)
            => /\ calls[a].stats = calls[b].stats
               /\ calls[a].runs = calls[b].runs

C1_Witness ==
    /\ Len(calls) = 2
    /\ calls[1].config = calls[2].config
    /\ calls[2].config.replications >= 2
    /\ calls[2].stats.completedJobs > 0
    /\ calls[2].stats.waitTimes.inspection # << >>

\* The timestamps of a job that are set, in stage order.
Stamps(job) ==
    LET all == << Some(job.arrivalTime), job.mouldingStartTime, job.mouldingEndTime,
                  job.inspectionStartTime, job.inspectionEndTime,
                  job.packagingStartTime, job.packagingEndTime >>
        set == SelectSeq(all, IsSet)
    IN [ k \in 1..Len(set) |-> Val(set[k]) ]

NonDecreasing(seq) == \A k \in 1..(Len(seq) - 1) : seq[k] <= seq[k + 1]

\* C2: in every state of a run, the timestamps of every job that are set
\* satisfy arrival <= mouldingStart <= mouldingEnd <= inspectionStart <=
\* inspectionEnd <= packagingStart <= packagingEnd.
C2_StageOrdering == \A k \in 1..Len(jobs) : NonDecreasing(Stamps(jobs[k]))

\* The server count of a stage in a config.
ServerCount(c, stage) ==
    CASE stage = "moulding"   -> c.mouldingMachines
      [] stage = "inspection" -> c.inspectionStations
      [] stage = "packaging"  -> c.packagingMachines

\* C3: a stage's accumulated busy time never exceeds duration * serverCount,
\* and every stage utilization in the statistics of a run lies in [0, 1].
C3_UtilizationBound ==
    /\ \A k \in 1..Len(Stages) :
          busy[Stages[k]] <= runConfig.duration * ServerCount(runConfig, Stages[k])
    /\ \A r \in 1..Len(results) : \A k \in 1..Len(Stages) :
          /\ 0 <= results[r].machineUtilization[Stages[k]]
          /\ results[r].machineUtilization[Stages[k]] <= Scale

\* C4: no event with a timestamp at or after duration is processed, and the
\* clock never passes duration.
C4_NoEventAtOrAfterDuration ==
    /\ lastEvent # << >> => lastEvent[1].time < runConfig.duration
    /\ currentTime <= runConfig.duration

\* C5: the WIP counter is never negative; a step that takes an Arrival adds
\* exactly 1 to it, one that takes a PackagingFinish subtracts exactly 1, and
\* one that takes a MouldingFinish or an InspectionFinish leaves it alone.
C5_WipSteps ==
    /\ [](currentWip >= 0)
    /\ [][ (pc = "loop" /\ processed' = processed + 1) =>
             /\ Head(queue).type = "ARRIVAL" => currentWip' = currentWip + 1
             /\ Head(queue).type = "PACKAGING_FINISH" => currentWip' = currentWip - 1
             /\ Head(queue).type \in { "MOULDING_FINISH", "INSPECTION_FINISH" }
                    => currentWip' = currentWip ]_vars

C5_Witness ==
    /\ Took("PACKAGING_FINISH")
    /\ currentWip >= 1
    /\ Len(jobs) >= 3

\* The integral over [0, duration] of the number of jobs that have arrived
\* and have not completed Packaging.
Clip(t, duration) == Max(0, Min(t, duration))

WipIntegral(js, duration) ==
    SumSeq([ k \in 1..Len(js) |->
               Clip(IF js[k].finished THEN Val(js[k].packagingEndTime) ELSE duration,
                    duration)
               - Clip(js[k].arrivalTime, duration) ])

\* C6: when the loop of a run is over, the accumulated wipArea (avgWip *
\* duration) is the integral of the instantaneous WIP over [0, duration].
C6_WipAreaIsIntegral ==
    LoopOver => wipArea = WipIntegral(jobs, runConfig.duration)

\* C7: replication k of an N-replication run with base seed s has the
\* statistics that run() returns for seed s + k and replications = 1.
C7_SeedDerivation ==
    \A a, b \in 1..Len(calls) :
        \A k \in 0..(Runs(calls[a].config) - 1) :
            calls[b].config = [ calls[a].config EXCEPT !.seed = @ + k,
                                                       !.replications = 1 ]
                => calls[b].stats = calls[a].runs[k + 1]

C7_Witness ==
    /\ Len(calls) = 2
    /\ calls[1].config.replications >= 2
    /\ calls[2].config = [ calls[1].config EXCEPT !.seed = @ + 1, !.replications = 1 ]
    /\ calls[2].stats.totalJobs > 0
    /\ calls[1].runs[1] # calls[1].runs[2]

\* C8: with replications = 1, run() returns the statistics of its single run
\* unchanged, with leadTimeCI = {avgLeadTime, avgLeadTime, avgLeadTime} and
\* costCI = {avgCost, avgCost, avgCost}.
Degenerate(ci, v) == ci.mean = v /\ ci.lower = v /\ ci.upper = v

C8_SingleReplication ==
    \A a \in 1..Len(calls) :
        calls[a].config.replications = 1
            => /\ Len(calls[a].runs) = 1
               /\ calls[a].stats = calls[a].runs[1]
               /\ Degenerate(calls[a].stats.leadTimeCI, calls[a].stats.avgLeadTime)
               /\ Degenerate(calls[a].stats.costCI,
                             calls[a].stats.avgDegradationCostPerPart)

C8_Witness ==
    /\ Len(calls) >= 1
    /\ calls[1].config.replications = 1
    /\ calls[1].stats.avgLeadTime > 0
    /\ calls[1].stats.avgDegradationCostPerPart > 0

\* C9: with replications >= 2, leadTimeCI and costCI satisfy lower <= mean <=
\* upper, lie symmetrically about mean, and have the aggregate avgLeadTime
\* (avgDegradationCostPerPart) as their mean.
SaneCI(ci, v) ==
    /\ ci.lower <= ci.mean
    /\ ci.mean <= ci.upper
    /\ ci.mean - ci.lower = ci.upper - ci.mean
    /\ ci.mean = v

C9_ConfidenceIntervals ==
    \A a \in 1..Len(calls) :
        calls[a].config.replications >= 2
            => /\ SaneCI(calls[a].stats.leadTimeCI, calls[a].stats.avgLeadTime)
               /\ SaneCI(calls[a].stats.costCI,
                         calls[a].stats.avgDegradationCostPerPart)

C9_Witness ==
    /\ Len(calls) >= 1
    /\ calls[1].config.replications >= 2
    /\ calls[1].stats.leadTimeCI.upper > calls[1].stats.leadTimeCI.mean
    /\ calls[1].stats.costCI.upper > calls[1].stats.costCI.mean

\* n is the quotient sum / count rounded to the nearest integer, halves up.
IsRoundedMean(n, sum, count) ==
    /\ 2 * count * n <= 2 * sum + count
    /\ 2 * sum + count < 2 * count * (n + 1)

\* C10: every returned SimulationStats has completedJobs <= totalJobs, and
\* with two or more replications both are the rounded means of the per-run
\* counts.
C10_JobCounts ==
    \A a \in 1..Len(calls) :
        LET runs == calls[a].runs
            st   == calls[a].stats
        IN /\ st.completedJobs <= st.totalJobs
           /\ Len(runs) >= 2 =>
                /\ IsRoundedMean(st.totalJobs,
                                 SumSeq(Pluck(runs, "totalJobs")), Len(runs))
                /\ IsRoundedMean(st.completedJobs,
                                 SumSeq(Pluck(runs, "completedJobs")), Len(runs))

C10_Witness ==
    /\ Len(calls) >= 1
    /\ Len(calls[1].runs) = 2
    /\ (calls[1].runs[1].totalJobs + calls[1].runs[2].totalJobs) % 2 = 1
    /\ calls[1].stats.completedJobs >= 1

----------------------------------------------------------------------------
(* Statistics of a single run.                                             *)

\* run() is past the loop of its last run: the locals are those of that run
\* and the last entry of results holds its statistics.
RunDone == pc \in { "aggregate", "returned" } /\ results # << >>

lastRun == results[Len(results)]

\* q is the quotient n / d (d > 0) truncated toward zero, and 0 when d = 0.
IsQuotient(q, n, d) ==
    IF d = 0 THEN q = 0
    ELSE IF n >= 0 THEN q * d <= n /\ n < (q + 1) * d
    ELSE (q - 1) * d < n /\ n <= q * d

\* The jobs whose PackagingFinish event the run has taken.
PackagedJobs ==
    { taken[k].job : k \in { n \in 1..Len(taken) : taken[n].type = "PACKAGING_FINISH" } }

\* C11: for a run with replications = 1 and positive duration, completedJobs
\* counts exactly the jobs whose PackagingFinish event was processed, and
\* throughput is completedJobs / (duration / 60) per hour.
C11_Throughput ==
    (pc = "returned" /\ config.replications = 1 /\ config.duration > 0) =>
        LET st == calls[Len(calls)].stats
        IN /\ st.completedJobs = Cardinality(PackagedJobs)
           /\ Cardinality(PackagedJobs)
                = Len(SelectSeq(taken, LAMBDA e : e.type = "PACKAGING_FINISH"))
           /\ \A k \in 1..Len(jobs) : jobs[k].finished <=> jobs[k].id \in PackagedJobs
           /\ IsQuotient(st.throughput,
                         st.completedJobs * Scale * 60 * TicksPerMinute,
                         config.duration)

C11_Witness ==
    /\ pc = "returned"
    /\ config.replications = 1
    /\ calls[Len(calls)].stats.completedJobs >= 3
    /\ calls[Len(calls)].stats.completedJobs < calls[Len(calls)].stats.totalJobs
    /\ calls[Len(calls)].stats.throughput > 0

\* The jobs that were dispatched into a stage (the stage's start is stamped).
Reached(stage) == { k \in 1..Len(jobs) : IsSet(jobs[k][StartField(stage)]) }

\* The wait of job k before Inspection.
InspectionWait(k) == Val(jobs[k].inspectionStartTime) - Val(jobs[k].mouldingEndTime)

\* The sum of f over the set of job indexes S.
RECURSIVE SumOver(_, _)
SumOver(S, f) ==
    IF S = {} THEN 0
    ELSE LET k == CHOOSE x \in S : TRUE IN f[k] + SumOver(S \ { k }, f)

\* C12: the totalDegradationCost of a run is the sum, over all jobs that
\* reached Inspection, of max(0, inspectionWait - degradationThreshold) *
\* degradationCostPerMinute, and it is 0 when the threshold is larger than
\* every Inspection wait of the run.
C12_DegradationCost ==
    RunDone =>
        LET c       == runConfig
            charged == [ k \in Reached("inspection") |->
                           Max(0, InspectionWait(k) - c.degradationThreshold)
                             * c.degradationCostPerMinute ]
        IN /\ lastRun.totalDegradationCost = SumOver(Reached("inspection"), charged)
           /\ (\A k \in Reached("inspection") :
                   c.degradationThreshold > InspectionWait(k))
                => lastRun.totalDegradationCost = 0

C12_Witness ==
    /\ RunDone
    /\ runConfig.degradationThreshold > 0
    /\ lastRun.totalDegradationCost > 0
    /\ \E k \in Reached("inspection") :
           InspectionWait(k) < runConfig.degradationThreshold

\* C13: the avgDegradationCostPerPart of a run is totalDegradationCost divided
\* by the number of jobs created, completed or not, and its avgLeadTime is
\* the sum of packagingEnd - arrival over the completed jobs divided by the
\* number of completed jobs.
C13_Denominators ==
    RunDone =>
        LET done == { k \in 1..Len(jobs) : jobs[k].finished }
            lead == [ k \in done |-> Val(jobs[k].packagingEndTime) - jobs[k].arrivalTime ]
        IN /\ IsQuotient(lastRun.avgDegradationCostPerPart,
                         lastRun.totalDegradationCost, Len(jobs))
           /\ IsQuotient(lastRun.avgLeadTime, SumOver(done, lead), Cardinality(done))

C13_Witness ==
    /\ RunDone
    /\ lastRun.completedJobs >= 2
    /\ lastRun.completedJobs < lastRun.totalJobs
    /\ lastRun.avgDegradationCostPerPart > 0
    /\ lastRun.totalDegradationCost \div lastRun.completedJobs
          # lastRun.avgDegradationCostPerPart

\* The wait of a job before a stage it was dispatched into.
StageWait(job, stage) ==
    CASE stage = "moulding"   -> Val(job.mouldingStartTime) - job.arrivalTime
      [] stage = "inspection" -> Val(job.inspectionStartTime) - Val(job.mouldingEndTime)
      [] stage = "packaging"  -> Val(job.packagingStartTime) - Val(job.inspectionEndTime)

\* The waits before a stage of the jobs dispatched into it, in job order.
WaitsOfReached(stage) ==
    LET sel == SelectSeq(jobs, LAMBDA j : IsSet(j[StartField(stage)]))
    IN [ k \in 1..Len(sel) |-> StageWait(sel[k], stage) ]

\* C15: each wait sample of a run has exactly one entry for every job that
\* was dispatched into the stage, a job stamped at time 0 included, and no
\* other entry.
C15_WaitSamples ==
    RunDone =>
        \A n \in 1..Len(Stages) :
            lastRun.waitTimes[Stages[n]] = SortAscending(WaitsOfReached(Stages[n]))

\* v is the element at index floor(length * 0.9) (counted from 0) of w.
IsP90(v, w) ==
    \E idx \in 0..(Len(w) - 1) :
        /\ 10 * idx <= 9 * Len(w)
        /\ 9 * Len(w) < 10 * (idx + 1)
        /\ v = w[idx + 1]

\* C16: the WaitStats of every non-empty wait sample have the largest
\* element as max, the element at index floor(length * 0.9) of the ascending
\* sort as p90, the arithmetic mean as avg, and p90 <= max and avg <= max;
\* those of an empty sample are {0, 0, 0}.
C16_WaitStats ==
    \A r \in 1..Len(results) : \A n \in 1..Len(Stages) :
        LET w  == results[r].waitTimes[Stages[n]]
            ws == results[r].waitStats[Stages[n]]
        IN IF w = << >>
           THEN ws = [ avg |-> 0, p90 |-> 0, max |-> 0 ]
           ELSE /\ NonDecreasing(w)
                /\ \E k \in 1..Len(w) : ws.max = w[k]
                /\ \A k \in 1..Len(w) : w[k] <= ws.max
                /\ IsP90(ws.p90, w)
                /\ IsQuotient(ws.avg, SumSeq(w), Len(w))
                /\ ws.p90 <= ws.max
                /\ ws.avg <= ws.max

C16_Witness ==
    /\ \E r \in 1..Len(results) :
          /\ Len(results[r].waitTimes.moulding) >= 11
          /\ results[r].waitStats.moulding.p90 < results[r].waitStats.moulding.max
          /\ results[r].waitStats.moulding.avg > 0
    /\ \E r \in 1..Len(results) :
          /\ Len(results[r].waitTimes.packaging) \in 1..9
          /\ results[r].waitStats.packaging.avg < results[r].waitStats.packaging.max

----------------------------------------------------------------------------
(* Aggregation.                                                            *)

\* The orders in which n per-run results can be combined.
RunOrders(n) ==
    { f \in [ 1..n -> 1..n ] : \A a, b \in 1..n : a # b => f[a] # f[b] }

Reordered(runs, f) == [ k \in 1..Len(runs) |-> runs[f[k]] ]

\* The statistics with each waitTimes array replaced by its ascending sort,
\* so that arrays with the same elements and multiplicities become equal.
UpToWaitOrder(stats) ==
    [ stats EXCEPT !.waitTimes =
        [ moulding   |-> SortAscending(stats.waitTimes.moulding),
          inspection |-> SortAscending(stats.waitTimes.inspection),
          packaging  |-> SortAscending(stats.waitTimes.packaging) ] ]

\* C17 (as claimed): for N >= 2 replications, every permutation of the
\* per-run results gives the same aggregate SimulationStats, the
\* concatenated waitTimes arrays included.
C17_OrderIndependent ==
    \A a \in 1..Len(calls) :
        Len(calls[a].runs) >= 2 =>
            \A f \in RunOrders(Len(calls[a].runs)) :
                AggregateResults(Reordered(calls[a].runs, f)) = calls[a].stats

\* C17 (amended): for N >= 2 replications, every permutation of the per-run
\* results gives the same aggregate except for the order of the elements of
\* the concatenated waitTimes arrays, which hold the same elements with the
\* same multiplicities.
C17_OrderIndependentUpToWaitOrder ==
    \A a \in 1..Len(calls) :
        Len(calls[a].runs) >= 2 =>
            \A f \in RunOrders(Len(calls[a].runs)) :
                UpToWaitOrder(AggregateResults(Reordered(calls[a].runs, f)))
                    = UpToWaitOrder(calls[a].stats)

C17_Witness ==
    /\ Len(calls) >= 1
    /\ Len(calls[1].runs) = 3
    /\ AggregateResults(Reordered(calls[1].runs, << 3, 1, 2 >>)).waitTimes
          # calls[1].stats.waitTimes
    /\ calls[1].runs[1].waitStats.inspection.max
          < calls[1].runs[2].waitStats.inspection.max
    /\ calls[1].runs[1].avgLeadTime # calls[1].runs[3].avgLeadTime

----------------------------------------------------------------------------
(* Configurations with a field at 0 or below.                              *)

\* The ratios of a SimulationStats.
Ratios(st) ==
    { st.throughput, st.avgWip, st.avgLeadTime, st.avgDegradationCostPerPart,
      st.serviceLevel, st.machineUtilization.moulding,
      st.machineUtilization.inspection, st.machineUtilization.packaging }

\* C14: no ratio of the returned statistics is NaN or infinite, and every
\* ratio whose denominator is zero is 0: throughput and avgWip when duration
\* = 0, avgLeadTime with no completed job, avgDegradationCostPerPart with no
\* job, serviceLevel with no Inspection wait, utilization with zero
\* capacity-time.
C14_ZeroDenominators ==
    \A a \in 1..Len(calls) : \A r \in 1..Len(calls[a].runs) :
        LET c  == calls[a].config
            st == calls[a].runs[r]
        IN /\ Ratios(st) \cap NonFinite = {}
           /\ Ratios(calls[a].stats) \cap NonFinite = {}
           /\ c.duration = 0 => st.throughput = 0 /\ st.avgWip = 0
           /\ st.completedJobs = 0 => st.avgLeadTime = 0
           /\ st.totalJobs = 0 => st.avgDegradationCostPerPart = 0
           /\ st.waitTimes.inspection = << >> => st.serviceLevel = 0
           /\ \A n \in 1..Len(Stages) :
                 c.duration * ServerCount(c, Stages[n]) = 0
                    => st.machineUtilization[Stages[n]] = 0

\* A state of a run that only such states follow, so that the loop of the
\* run never exits: no inter-arrival draw is positive (the mean is 0 or
\* negative and the generator states are non-negative), the clock is before
\* duration and an arrival is pending at a time before duration.  Every
\* event in front of that arrival is no later than it, and taking the
\* arrival schedules the next one no later than itself.
Livelocked ==
    /\ pc = "loop"
    /\ runConfig.arrivalIntervalMean <= 0
    /\ randomSeed >= 0
    /\ currentTime < runConfig.duration
    /\ \E k \in 1..Len(queue) :
          /\ queue[k].type = "ARRIVAL"
          /\ queue[k].time < runConfig.duration
          /\ \A n \in 1..k : queue[n].time <= queue[k].time

\* Every step from a livelocked state leads to a livelocked state.
LivelockIsClosed == [][Livelocked => Livelocked']_vars

\* C20: on a config with a server count, the duration or arrivalIntervalMean
\* at 0 or below, run() terminates and returns: no run reaches a state from
\* which its loop cannot exit.
C20_DegenerateRunReturns == ~Livelocked

----------------------------------------------------------------------------
(* Termination.                                                            *)

\* Every step of run() is a step of Advance.
StepsAdvance == [][Advance]_vars

\* C19: on a config with positive duration, server counts and
\* arrivalIntervalMean, the loop of every run processes finitely many events
\* and ends, and run() returns.
C19_RunReturns == (pc = "loop") ~> (pc = "returned")

C19_Witness ==
    /\ pc = "returned"
    /\ Len(calls) = 1
    /\ replication = 2
    /\ processed >= 20
    /\ queue # << >>
    /\ currentTime >= runConfig.duration

----------------------------------------------------------------------------
(* Sensitivity sweep.                                                      *)

----------------------------------------------------------------------------
(* Stages: dispatch, queues and routing.                                   *)

\* The stage before a stage of the line.
PrevStage(stage) ==
    CASE stage = "inspection" -> "moulding"
      [] stage = "packaging"  -> "inspection"

\* The jobs that have reached a stage in this run, in the order in which they
\* reached it: every job reaches Moulding when its Arrival is processed, and
\* a later stage when the finish event of the stage before is processed.
ArrivedAt(stage) ==
    IF stage = "moulding" THEN [ k \in 1..Len(jobs) |-> k ]
    ELSE LET sel == SelectSeq(taken, LAMBDA e : e.type = FinishType(PrevStage(stage)))
         IN [ k \in 1..Len(sel) |-> sel[k].job ]

\* C21: if the server count of a stage is 0 or negative, no job is ever
\* dispatched into the stage: the stage's wait queue holds every job that
\* reached it, in the order of reaching it, no job has the stage's start
\* stamped, no finish event of the stage is pending or was processed, the
\* stage's free counter keeps its initial value, and no job completes.
C21_NoDispatchWithoutServers ==
    \A n \in 1..Len(Stages) :
        LET stage == Stages[n]
        IN ServerCount(runConfig, stage) <= 0 =>
              /\ waitQueue[stage] = ArrivedAt(stage)
              /\ free[stage] = ServerCount(runConfig, stage)
              /\ \A k \in 1..Len(jobs) :
                    /\ ~IsSet(jobs[k][StartField(stage)])
                    /\ ~IsSet(jobs[k][EndField(stage)])
                    /\ ~jobs[k].finished
              /\ \A k \in 1..Len(queue) : queue[k].type # FinishType(stage)
              /\ \A k \in 1..Len(taken) : taken[k].type # FinishType(stage)
              /\ \A r \in 1..Len(results) : results[r].completedJobs = 0

C21_Witness ==
    /\ runConfig.inspectionStations <= 0
    /\ Len(waitQueue.inspection) >= 3
    /\ Len(jobs) > Len(waitQueue.inspection)
    /\ RunDone

----------------------------------------------------------------------------
(* The generator.                                                          *)

\* C22: for every integer seed, negative ones included, the state of the
\* generator after each draw lies in 0..233279 (so that every draw lies in
\* [0, 1)), and the productType of every job is one of the four product
\* types.
C22_DrawRange ==
    /\ randomSeed \in 0..(LcgModulus - 1)
    /\ \A k \in 1..Len(jobs) :
          \E n \in 1..Len(ProductTypes) : jobs[k].productType = ProductTypes[n]

----------------------------------------------------------------------------
(* The scheduler.                                                          *)

\* The pending events are in non-decreasing order of time.
QueueSorted == \A k \in 1..(Len(queue) - 1) : queue[k].time <= queue[k + 1].time

\* A step of the loop of a run: it takes the event at the head of the queue.
LoopStep == pc = "loop" /\ processed' = processed + 1

\* C23: events are extracted in non-decreasing order of time: the event a
\* step takes is the one with the smallest time among the pending events,
\* and the clock never decreases from one processed event to the next.
C23_ClockMonotone ==
    /\ [] QueueSorted
    /\ [][ LoopStep => /\ currentTime' = Head(queue).time
                       /\ \A k \in 1..Len(queue) : Head(queue).time <= queue[k].time
                       /\ currentTime' >= currentTime ]_vars

\* The place of an event type in the order in which one case of the switch
\* calls schedule: an Arrival schedules the next Arrival and then a
\* MouldingFinish, and the finish case of a stage schedules a finish of its
\* own stage (for the job handed the server) and then one of the next stage.
TypeRank(type) ==
    CASE type = "ARRIVAL"           -> 1
      [] type = "MOULDING_FINISH"   -> 2
      [] type = "INSPECTION_FINISH" -> 3
      [] type = "PACKAGING_FINISH"  -> 4

\* C24: pending events with the same time are processed in the order in
\* which they were scheduled.  Every step takes the head of the queue; the
\* events that stay pending keep their order, an event the step schedules
\* goes behind every pending event of the same time, and events of the same
\* time scheduled by one step are in the order of their schedule calls.
C24_StableTies ==
    [][ LoopStep =>
          LET old      == Tail(queue)
              isOld(e) == \E k \in 1..Len(old) : old[k] = e
          IN /\ SelectSeq(queue', LAMBDA e : isOld(e)) = old
             /\ \A p, q \in 1..Len(queue') :
                   (p < q /\ queue'[p].time = queue'[q].time /\ ~isOld(queue'[p]))
                      => /\ ~isOld(queue'[q])
                         /\ TypeRank(queue'[p].type) < TypeRank(queue'[q].type) ]_vars

\* Two events of the same time are pending, in an order that is not the
\* order of their types, and the first of them has just been scheduled.
C24_Witness ==
    /\ lastEvent # << >>
    /\ \E k \in 1..(Len(queue) - 1) :
          /\ queue[k].time = queue[k + 1].time
          /\ TypeRank(queue[k].type) > TypeRank(queue[k + 1].type)
    /\ \E k \in 2..Len(queue) :
          /\ queue[k].time = queue[k - 1].time
          /\ queue[k].type \in { "MOULDING_FINISH", "INSPECTION_FINISH", "PACKAGING_FINISH" }
          /\ IsSet(jobs[queue[k].job][StartField(Stages[TypeRank(queue[k].type) - 1])])
          /\ Val(jobs[queue[k].job][StartField(Stages[TypeRank(queue[k].type) - 1])])
                = currentTime

----------------------------------------------------------------------------
(* Servers.                                                                *)

\* C25: with positive server counts, the free counter of every stage stays
\* between 0 and the server count of the stage.
C25_FreeServersInRange ==
    \A n \in 1..Len(Stages) :
        ServerCount(runConfig, Stages[n]) > 0 =>
            /\ 0 <= free[Stages[n]]
            /\ free[Stages[n]] <= ServerCount(runConfig, Stages[n])

\* One stage has every server busy and jobs waiting while another, with two
\* servers, has both free again after serving jobs.
C25_Witness ==
    /\ free.moulding = 0
    /\ waitQueue.moulding # << >>
    /\ runConfig.inspectionStations = 2
    /\ free.inspection = 2
    /\ \E k \in 1..Len(jobs) : IsSet(jobs[k].inspectionEndTime)

----------------------------------------------------------------------------
(* Dispatch.                                                               *)

\* The step takes the event by which a job reaches the stage: its Arrival
\* for Moulding, the finish event of the stage before for a later stage.
ReachesBy(stage) ==
    Head(queue).type = (IF stage = "moulding" THEN "ARRIVAL"
                        ELSE FinishType(PrevStage(stage)))

\* The job that reaches the stage in such a step.
ReachingJob(stage) ==
    IF stage = "moulding" THEN Len(jobs) + 1 ELSE Head(queue).job

\* The pending finish events of a stage for a job, after the step.
FinishEventsAfter(stage, id) ==
    { k \in 1..Len(queue') : queue'[k].type = FinishType(stage) /\ queue'[k].job = id }

\* Job `id`, reaching the stage at time now, is put on a server (the time of
\* its finish event aside).
Dispatched(stage, id, now) ==
    /\ free'[stage] = free[stage] - 1
    /\ jobs'[id][StartField(stage)] = Some(now)
    /\ Cardinality(FinishEventsAfter(stage, id)) = 1
    /\ waitQueue'[stage] = waitQueue[stage]

\* Job `id`, reaching the stage, is put at the tail of the wait queue.
Enqueued(stage, id) ==
    /\ free'[stage] = free[stage]
    /\ ~IsSet(jobs'[id][StartField(stage)])
    /\ FinishEventsAfter(stage, id) = {}
    /\ waitQueue'[stage] = Append(waitQueue[stage], id)

\* C26: when a job reaches a stage at time now and the stage has a free
\* server, the free counter decreases by 1, the job's stage start is set to
\* now and exactly one finish event for the job and the stage is scheduled,
\* at a time >= now; otherwise the counter is unchanged, no stamp is set, no
\* finish event is scheduled and the job is appended at the tail of the
\* stage's wait queue.
C26_TryStart ==
    [][ LoopStep =>
          \A n \in 1..Len(Stages) :
              LET stage == Stages[n]
                  id    == ReachingJob(stage)
                  now   == Head(queue).time
              IN ReachesBy(stage) =>
                    IF free[stage] > 0
                    THEN /\ Dispatched(stage, id, now)
                         /\ \A k \in FinishEventsAfter(stage, id) : queue'[k].time >= now
                    ELSE Enqueued(stage, id) ]_vars

----------------------------------------------------------------------------
(* Queue discipline.                                                       *)

\* C27: each stage serves jobs first-in first-out.  Of two jobs that reached
\* the same stage, the one that reached it later in event order is
\* dispatched only if the earlier one is (so the earlier one is dispatched
\* no later), and the wait queue of the stage holds exactly the jobs that
\* reached it and are not dispatched, in the order of reaching it: a job
\* leaves the queue only by being dispatched.
C27_Fifo ==
    \A n \in 1..Len(Stages) :
        LET stage == Stages[n]
            arr   == ArrivedAt(stage)
            isDispatched(id) == IsSet(jobs[id][StartField(stage)])
        IN /\ \A a, b \in 1..Len(arr) :
                 (a < b /\ isDispatched(arr[b])) => isDispatched(arr[a])
           /\ waitQueue[stage] = SelectSeq(arr, LAMBDA id : ~isDispatched(id))

\* Jobs have waited for Moulding and for Inspection and were dispatched,
\* and two jobs or more are waiting for Moulding.
C27_Witness ==
    /\ Len(waitQueue.moulding) >= 2
    /\ \E k \in 1..Len(jobs) :
          /\ IsSet(jobs[k].mouldingStartTime)
          /\ Val(jobs[k].mouldingStartTime) > jobs[k].arrivalTime
          /\ \E m \in 1..(k - 1) : Val(jobs[m].mouldingStartTime) > jobs[k].arrivalTime
    /\ \E k \in 1..Len(jobs) :
          /\ IsSet(jobs[k].inspectionStartTime)
          /\ Val(jobs[k].inspectionStartTime) > Val(jobs[k].mouldingEndTime)

----------------------------------------------------------------------------
(* Hand-over of a freed server.                                            *)

\* C28: when the finish event of a stage is processed at time now and the
\* stage's wait queue is not empty, the head of the queue is dispatched in
\* the same step (it leaves the queue, its stage start is now, which is the
\* stage end of the finishing job, and its finish event is scheduled) and
\* the free counter of the stage is the same after the step as before; when
\* the queue is empty, the counter increases by exactly 1.
C28_HandOver ==
    [][ LoopStep =>
          \A n \in 1..Len(Stages) :
              LET stage == Stages[n]
                  id    == Head(queue).job
                  now   == Head(queue).time
              IN Head(queue).type = FinishType(stage) =>
                    /\ jobs'[id][EndField(stage)] = Some(now)
                    /\ IF waitQueue[stage] # << >>
                       THEN LET next == Head(waitQueue[stage])
                            IN /\ ~IsSet(jobs[next][StartField(stage)])
                               /\ jobs'[next][StartField(stage)] = Some(now)
                               /\ Cardinality(FinishEventsAfter(stage, next)) = 1
                               /\ waitQueue'[stage] = Tail(waitQueue[stage])
                               /\ free'[stage] = free[stage]
                       ELSE /\ free'[stage] = free[stage] + 1
                            /\ waitQueue'[stage] = << >> ]_vars

\* The last step was an InspectionFinish that handed the station to a job
\* that had waited, and the Moulding stage has freed a machine with nobody
\* waiting.
C28_Witness ==
    /\ Took("INSPECTION_FINISH")
    /\ free.inspection = 0
    /\ jobs[lastEvent[1].job].inspectionEndTime = Some(currentTime)
    /\ \E k \in 1..Len(jobs) :
          /\ k # lastEvent[1].job
          /\ jobs[k].inspectionStartTime = Some(currentTime)
          /\ Val(jobs[k].mouldingEndTime) < currentTime
    /\ waitQueue.moulding = << >>
    /\ free.moulding >= 1

----------------------------------------------------------------------------
(* Routing.                                                                *)

\* The steps of this run that took the finish event of a stage for job k.
FinishSteps(stage, k) ==
    { n \in 1..Len(taken) : taken[n].type = FinishType(stage) /\ taken[n].job = k }

\* The pending finish events of a stage for job k.
FinishPending(stage, k) ==
    { n \in 1..Len(queue) : queue[n].type = FinishType(stage) /\ queue[n].job = k }

\* Job k has entered the stage: it is on a server of it, or was, or waits
\* in its queue.
Entered(stage, k) ==
    \/ IsSet(jobs[k][StartField(stage)])
    \/ \E n \in 1..Len(waitQueue[stage]) : waitQueue[stage][n] = k

\* C29: each job passes through Moulding, Inspection and Packaging in that
\* order with at most one finish event per stage: it has entered Inspection
\* (on a server or in the queue) exactly if its MouldingFinish has been
\* processed, Packaging exactly if its InspectionFinish has been processed,
\* and it is finished exactly if its PackagingFinish has been processed; a
\* finish event of a stage exists only for a job dispatched into the stage,
\* and the finish events of a job were processed in stage order.
C29_LinearRouting ==
    \A k \in 1..Len(jobs) :
        /\ jobs[k].id = k
        /\ Entered("moulding", k)
        /\ Entered("inspection", k) <=> FinishSteps("moulding", k) # {}
        /\ Entered("packaging", k) <=> FinishSteps("inspection", k) # {}
        /\ jobs[k].finished <=> FinishSteps("packaging", k) # {}
        /\ \A n \in 1..Len(Stages) :
              LET stage == Stages[n]
              IN /\ Cardinality(FinishSteps(stage, k))
                      + Cardinality(FinishPending(stage, k)) <= 1
                 /\ FinishSteps(stage, k) \cup FinishPending(stage, k) # {}
                      => IsSet(jobs[k][StartField(stage)])
                 /\ IsSet(jobs[k][EndField(stage)]) <=> FinishSteps(stage, k) # {}
        /\ \A a \in FinishSteps("moulding", k), b \in FinishSteps("inspection", k) : a < b
        /\ \A a \in FinishSteps("inspection", k), b \in FinishSteps("packaging", k) : a < b

\* A job is finished, another waits for Inspection, a third is being
\* packaged.
C29_Witness ==
    /\ \E k \in 1..Len(jobs) : jobs[k].finished
    /\ waitQueue.inspection # << >>
    /\ \E k \in 1..Len(jobs) :
          IsSet(jobs[k].packagingStartTime) /\ ~IsSet(jobs[k].packagingEndTime)

----------------------------------------------------------------------------
(* Job records.                                                            *)

StampFields ==
    { "mouldingStartTime", "mouldingEndTime", "inspectionStartTime",
      "inspectionEndTime", "packagingStartTime", "packagingEndTime" }

\* C30: during a run, every stage start and stage end of a job and its
\* finished flag are written at most once: a stamp that is set keeps its
\* value in every later step, a flag that is true stays true, and no job is
\* removed.
C30_WriteOnce ==
    [][ LoopStep =>
          /\ Len(jobs') >= Len(jobs)
          /\ \A k \in 1..Len(jobs) :
                /\ \A f \in StampFields :
                      IsSet(jobs[k][f]) => jobs'[k][f] = jobs[k][f]
                /\ jobs[k].finished => jobs'[k].finished
                /\ jobs'[k].arrivalTime = jobs[k].arrivalTime ]_vars

\* A job has all its stamps and is finished, and the last step processed an
\* event of a later job at a later time.
C30_Witness ==
    /\ lastEvent # << >>
    /\ lastEvent[1].type = "INSPECTION_FINISH"
    /\ \E k \in 1..Len(jobs) :
          /\ jobs[k].finished
          /\ \A f \in StampFields : IsSet(jobs[k][f])
          /\ k < lastEvent[1].job
          /\ Val(jobs[k].packagingEndTime) < currentTime

----------------------------------------------------------------------------
(* Accounting.                                                             *)

\* The jobs whose end stamp of a stage is set.
Ended(stage) == { k \in 1..Len(jobs) : IsSet(jobs[k][EndField(stage)]) }

\* C31: the accumulated busy time of each stage is the sum of stageEnd -
\* stageStart over the jobs whose end stamp of the stage is set, a job
\* whose stage start is 0 included.
C31_BusyTime ==
    \A n \in 1..Len(Stages) :
        LET stage == Stages[n]
            spent == [ k \in Ended(stage) |->
                         Val(jobs[k][EndField(stage)]) - Val(jobs[k][StartField(stage)]) ]
        IN busy[stage] = SumOver(Ended(stage), spent)

\* C32: on every processed event, wipArea grows by (event time - previous
\* event time) times the WIP counter as it is before the event's case is
\* applied, and the event's time becomes the previous event time.
C32_WipAreaPreTransition ==
    [][ LoopStep =>
          /\ wipArea' = wipArea + currentWip * (Head(queue).time - lastEventTime)
          /\ lastEventTime' = Head(queue).time ]_vars

\* The last step took an Arrival or a PackagingFinish, which changed the
\* WIP counter, after a positive interval with jobs in the line.
C32_Witness ==
    /\ Len(taken) >= 2
    /\ taken[Len(taken)].type \in { "ARRIVAL", "PACKAGING_FINISH" }
    /\ taken[Len(taken)].time > taken[Len(taken) - 1].time
    /\ currentWip >= 2
    /\ wipArea > 0

----------------------------------------------------------------------------
(* Arrivals.                                                               *)

\* C33: every job created in a run has arrivalTime < duration, and no
\* Arrival event, the first one included, is pending at a time at or after
\* duration.
C33_ArrivalsBeforeDuration ==
    /\ \A k \in 1..Len(jobs) : jobs[k].arrivalTime < runConfig.duration
    /\ \A k \in 1..Len(queue) :
          queue[k].type = "ARRIVAL" => queue[k].time < runConfig.duration

\* C34: the WIP counter is the number of jobs created so far minus the number
\* of jobs with finished = true.
C34_WipCount ==
    currentWip = Len(jobs) - Cardinality({ k \in 1..Len(jobs) : jobs[k].finished })

C34_Witness ==
    /\ currentWip >= 2
    /\ Cardinality({ k \in 1..Len(jobs) : jobs[k].finished }) >= 2
    /\ Took("PACKAGING_FINISH")

----------------------------------------------------------------------------
(* Server pools between two events.                                        *)

\* C35: with positive server counts, between two events the wait queue of a
\* stage is non-empty only if the stage has no free server.
C35_NoIdleServerWhileWaiting ==
    \A n \in 1..Len(Stages) :
        (ServerCount(runConfig, Stages[n]) > 0 /\ waitQueue[Stages[n]] # << >>)
            => free[Stages[n]] = 0

\* Jobs wait for Inspection behind a busy station after a hand-over, while
\* Moulding has a machine free and nobody waiting.
C35_Witness ==
    /\ Len(waitQueue.inspection) >= 2
    /\ free.inspection = 0
    /\ Took("INSPECTION_FINISH")
    /\ waitQueue.moulding = << >>
    /\ free.moulding >= 1

\* The jobs in service at a stage: the start is stamped, the end is not.
InService(stage) ==
    { k \in 1..Len(jobs) : IsSet(jobs[k][StartField(stage)])
                             /\ ~IsSet(jobs[k][EndField(stage)]) }

\* C36: between two events, the number of pending finish events of a stage
\* is serverCount - freeServers, and each job in service at the stage has
\* exactly one pending finish event of the stage for it.
C36_PendingFinishEvents ==
    \A n \in 1..Len(Stages) :
        LET stage == Stages[n]
        IN /\ Cardinality({ k \in 1..Len(queue) : queue[k].type = FinishType(stage) })
                = ServerCount(runConfig, stage) - free[stage]
           /\ \A k \in InService(stage) : Cardinality(FinishPending(stage, k)) = 1

\* Both Moulding machines are busy, one station of Inspection is, and jobs
\* have already left both stages.
C36_Witness ==
    /\ runConfig.mouldingMachines = 2
    /\ free.moulding = 0
    /\ Cardinality(InService("moulding")) = 2
    /\ Cardinality(InService("inspection")) = 1
    /\ Ended("inspection") # {}

----------------------------------------------------------------------------
(* Conservation of jobs.                                                   *)

\* The slots of the wait queues: stage number and position.
QueueSlots ==
    UNION { { << n, m >> : m \in 1..Len(waitQueue[Stages[n]]) } : n \in 1..Len(Stages) }

\* The number of places in which job k is: one for each queue slot that
\* holds it, one for each stage at which it is in service, one if it is
\* finished.
PlacesOf(k) ==
    Cardinality({ p \in QueueSlots : waitQueue[Stages[p[1]]][p[2]] = k })
      + Cardinality({ n \in 1..Len(Stages) : k \in InService(Stages[n]) })
      + (IF jobs[k].finished THEN 1 ELSE 0)

\* C37: between two events every created job is in exactly one place (in
\* the wait queue of one stage, in service at one stage, or finished), the
\* wait queues hold created jobs only, and the number of jobs created is
\* the number of queued jobs plus the jobs in service plus the finished
\* jobs.
C37_JobConservation ==
    /\ \A k \in 1..Len(jobs) : PlacesOf(k) = 1
    /\ \A p \in QueueSlots : waitQueue[Stages[p[1]]][p[2]] \in 1..Len(jobs)
    /\ Len(jobs) = Cardinality(QueueSlots)
                     + Cardinality(InService("moulding"))
                     + Cardinality(InService("inspection"))
                     + Cardinality(InService("packaging"))
                     + Cardinality({ k \in 1..Len(jobs) : jobs[k].finished })

\* Jobs wait for Moulding and for Packaging, a job is inspected and another
\* is finished.
C37_Witness ==
    /\ waitQueue.moulding # << >>
    /\ waitQueue.packaging # << >>
    /\ InService("inspection") # {}
    /\ \E k \in 1..Len(jobs) : jobs[k].finished

----------------------------------------------------------------------------
(* The end of a run.                                                       *)

\* C38: in a run, at most one event with a time at or after duration is
\* processed, and if one is, it is the last event of the run: no event
\* before the last one taken has such a time, and after one is taken the
\* loop test fails.
C38_OneEventPastDuration ==
    /\ \A n \in 1..(Len(taken) - 1) : taken[n].time < runConfig.duration
    /\ (taken # << >> /\ taken[Len(taken)].time >= runConfig.duration)
          => ~(pc = "loop" /\ LoopGuard(runConfig, queue, currentTime))

\* A run has ended on an event past duration with events still pending.
C38_Witness ==
    /\ Len(taken) >= 5
    /\ taken[Len(taken)].time > runConfig.duration
    /\ taken[Len(taken)].type # "ARRIVAL"
    /\ queue # << >>
    /\ RunDone

----------------------------------------------------------------------------
(* Arrivals and job ids.                                                   *)

\* The Arrival events this run has taken, in order.
ArrivalsTaken == SelectSeq(taken, LAMBDA e : e.type = "ARRIVAL")

\* At most one Arrival is pending, and the n-th Arrival processed created
\* the job with id n, at the time of the event.
SequentialIds ==
    /\ Cardinality({ k \in 1..Len(queue) : queue[k].type = "ARRIVAL" }) <= 1
    /\ Len(ArrivalsTaken) = Len(jobs)
    /\ \A k \in 1..Len(jobs) :
          /\ jobs[k].id = k
          /\ jobs[k].arrivalTime = ArrivalsTaken[k].time

\* C39: the scheduler holds at most one pending Arrival, job ids are 1, 2,
\* 3, ... in the order in which the Arrival events are processed, and ids
\* increase with arrivalTime: a job with a larger id has not arrived
\* earlier.
C39_ArrivalIds ==
    /\ SequentialIds
    /\ \A a, b \in 1..Len(jobs) :
          a < b => jobs[a].arrivalTime <= jobs[b].arrivalTime

----------------------------------------------------------------------------
(* The wait samples returned by a run.                                     *)

\* The waits the jobs.forEach of the run collected for a stage, in job
\* order.
CollectedWaits(stage) ==
    CASE stage = "moulding"   -> MouldingWaits(jobs)
      [] stage = "inspection" -> InspectionWaits(jobs)
      [] stage = "packaging"  -> PackagingWaits(jobs)

\* The number of times v occurs in the sequence.
Occurrences(seq, v) == Cardinality({ k \in 1..Len(seq) : seq[k] = v })

\* The two sequences hold the same elements with the same multiplicities.
IsPermutation(a, b) ==
    /\ Len(a) = Len(b)
    /\ \A k \in 1..Len(a) : Occurrences(a, a[k]) = Occurrences(b, a[k])

\* C40: each waitTimes array returned by a single run is in ascending order
\* (calcStats has sorted in place the array the result refers to), whatever
\* the order of the jobs, and is a permutation of the waits collected for
\* the stage.
C40_WaitTimesSorted ==
    /\ \A r \in 1..Len(results) : \A n \in 1..Len(Stages) :
          NonDecreasing(results[r].waitTimes[Stages[n]])
    /\ RunDone =>
          \A n \in 1..Len(Stages) :
              IsPermutation(lastRun.waitTimes[Stages[n]], CollectedWaits(Stages[n]))

\* The waits collected for Moulding and for Inspection are not in ascending
\* order in job order.
C40_Witness ==
    /\ RunDone
    /\ Len(CollectedWaits("moulding")) >= 4
    /\ ~NonDecreasing(CollectedWaits("moulding"))
    /\ ~NonDecreasing(CollectedWaits("inspection"))
    /\ lastRun.waitTimes.moulding # CollectedWaits("moulding")

====
